---- MODULE Spec2Model ----
(***************************************************************************)
(* A model of Q1/102217164.py: the command-line TOPSIS program.            *)
(*                                                                         *)
(* The program is one sequential run: the argument-count check, the        *)
(* parsing of the Weights and Impacts arguments, validate_input, topsis,   *)
(* and the top-level exception handler.                                    *)
(*                                                                         *)
(* Numbers.  The program computes in IEEE doubles.  The model computes the *)
(* same quantities exactly:                                                *)
(*   - an entry of norm_matrix / weighted_matrix is n / sqrt(r), kept as   *)
(*     the pair [n, r] (r is the column's sum of squares);                 *)
(*   - a squared separation is a rational, kept as a reduced fraction      *)
(*     [num, den];  0/0 (den = 0) is the not-a-number the division by a    *)
(*     zero norm produces;                                                 *)
(*   - a score sin / (sip + sin) depends only on the ratio of the squared  *)
(*     separations and is kept as the reduced pair [sn, sp], denoting      *)
(*     sqrt(sn) / (sqrt(sn) + sqrt(sp));  [0, 0] is not-a-number.          *)
(* Scores that are equal exactly may differ in the last bit in doubles,    *)
(* and numpy's default argsort is not a stable sort, so the order argsort  *)
(* gives to equal scores is a nondeterministic choice.                     *)
(***************************************************************************)
EXTENDS Integers, Sequences, FiniteSets, TLC

VARIABLES argv, file, pc, weights, impacts, outfile, stdout, exit, uncaught,
          reads, writes, calls, resultPath

vars == <<argv, file, pc, weights, impacts, outfile, stdout, exit, uncaught,
          reads, writes, calls, resultPath>>

(***************************************************************************)
(* Bounds of the model.                                                    *)
(***************************************************************************)
MaxRows == 3
MaxVal == 2
MaxWeight == 2
MaxScale == 2

(***************************************************************************)
(* Program constants.                                                      *)
(***************************************************************************)
ArgCount == 5
MinColumns == 3
UsageExit == 1

(***************************************************************************)
(* Arithmetic helpers.                                                     *)
(***************************************************************************)
Abs(x) == IF x < 0 THEN -x ELSE x

RECURSIVE Gcd(_, _)
Gcd(a, b) == IF b = 0 THEN a ELSE Gcd(b, a % b)

RECURSIVE SumTo(_, _)
SumTo(f, n) == IF n = 0 THEN 0 ELSE f[n] + SumTo(f, n - 1)

Range(s) == {s[k] : k \in DOMAIN s}

\* a function on 1..n as the sequence of its values (numpy arrays hold values)
AsSeq(f) == SubSeq(f, 1, Len(f))

SetMax(S) == CHOOSE x \in S : \A y \in S : y <= x
SetMin(S) == CHOOSE x \in S : \A y \in S : x <= y

\* A rational num/den in lowest terms; den = 0 only for 0/0.
Frac(num, den) ==
    IF den = 0 THEN [num |-> 0, den |-> 0]
    ELSE LET g == Gcd(Abs(num), Abs(den))
         IN  [num |-> num \div g, den |-> den \div g]

(***************************************************************************)
(* The data frame pandas.read_csv returns: column names, column dtypes and *)
(* the columns themselves, each a sequence of one cell per row.  Column 1  *)
(* is the identifier column.  The cells of an "object" column are text;    *)
(* the model keeps a number in their place, which no arithmetic reads.     *)
(***************************************************************************)
NoFile == [exists |-> FALSE, names |-> <<>>, dtypes |-> <<>>, cols |-> <<>>]

NumCols(df) == Len(df.names)
NumRows(df) == IF Len(df.cols) = 0 THEN 0 ELSE Len(df.cols[1])

\* data.iloc[:, 1:].values : the rows x N matrix, as a function of (row, column)
criteria(df) ==
    AsSeq([i \in 1..NumRows(df) |->
              AsSeq([j \in 1..(NumCols(df) - 1) |-> df.cols[j + 1][i]])])

\* data[name] = values : replaces the column called name when the frame has
\* one, and appends a new last column otherwise
SetColumn(df, name, dtype, values) ==
    IF \E k \in 1..NumCols(df) : df.names[k] = name
    THEN LET k == CHOOSE c \in 1..NumCols(df) : df.names[c] = name
         IN  [df EXCEPT !.dtypes[k] = dtype, !.cols[k] = values]
    ELSE [df EXCEPT !.names = Append(@, name),
                    !.dtypes = Append(@, dtype),
                    !.cols = Append(@, values)]

(***************************************************************************)
(* validate_input: the message of the exception it raises, or OK when it   *)
(* returns.  The conditions carry the names the specification gives them.  *)
(***************************************************************************)
OK == "ok"
MissingFile == "The input file does not exist. Please provide a valid file path."
InsufficientColumns == "The input file must have at least 3 columns (Name + Criteria)."
NonNumericCriterion == "All columns from the 2nd to the last must contain numeric values."
DimensionMismatch == "The number of weights, impacts, and numeric columns must be the same."
InvalidImpact == "Impacts must be '+' or '-'."

\* np.issubdtype(data[column].dtype, np.number)
IsNumber(dtype) == dtype \in {"int64", "float64"}

\* a variant that checks the impact symbols before the counts
validate_input_ImpactsFirst(f, w, imp) ==
    IF ~f.exists THEN MissingFile
    ELSE IF NumCols(f) < MinColumns THEN InsufficientColumns
    ELSE IF \E c \in 2..NumCols(f) : ~IsNumber(f.dtypes[c]) THEN NonNumericCriterion
    ELSE IF ~(\A k \in 1..Len(imp) : imp[k] \in {"+", "-"}) THEN InvalidImpact
    ELSE IF Len(w) # Len(imp) \/ Len(w) # NumCols(f) - 1 THEN DimensionMismatch
    ELSE OK

validate_input(f, w, imp) ==
    IF ~f.exists THEN MissingFile
    ELSE IF NumCols(f) < MinColumns THEN InsufficientColumns
    ELSE IF \E c \in 2..NumCols(f) : ~IsNumber(f.dtypes[c]) THEN NonNumericCriterion
    ELSE IF Len(w) # Len(imp) \/ Len(w) # NumCols(f) - 1 THEN DimensionMismatch
    ELSE IF ~(\A k \in 1..Len(imp) : imp[k] \in {"+", "-"}) THEN InvalidImpact
    ELSE OK

(***************************************************************************)
(* topsis, step by step.                                                   *)
(***************************************************************************)
\* (criteria ** 2).sum(axis=0), column j
ColSumSq(crit, j) == SumTo([i \in 1..Len(crit) |-> crit[i][j] * crit[i][j]], Len(crit))

\* a variant that skips the normalisation and keeps the raw values
norm_matrix_Unnormalised(crit) ==
    AsSeq([i \in 1..Len(crit) |->
        AsSeq([j \in 1..Len(crit[i]) |-> [n |-> crit[i][j], r |-> 1]])])

\* criteria / np.sqrt((criteria ** 2).sum(axis=0)) : entry [n, r] is n / sqrt(r)
norm_matrix(crit) ==
    AsSeq([i \in 1..Len(crit) |->
        AsSeq([j \in 1..Len(crit[i]) |-> [n |-> crit[i][j], r |-> ColSumSq(crit, j)]])])

\* norm_matrix * weights
weighted_matrix(crit, w) ==
    LET nm == norm_matrix(crit)
    IN  AsSeq([i \in 1..Len(nm) |->
            AsSeq([j \in 1..Len(nm[i]) |-> [n |-> nm[i][j].n * w[j], r |-> nm[i][j].r]])])

\* max(weighted_matrix[:, j]) and min(weighted_matrix[:, j]): the entries of a
\* column share the radicand r, so they are ordered by n
ColMax(wm, j) == [n |-> SetMax({wm[i][j].n : i \in 1..Len(wm)}), r |-> wm[1][j].r]
ColMin(wm, j) == [n |-> SetMin({wm[i][j].n : i \in 1..Len(wm)}), r |-> wm[1][j].r]

pis(wm, w, imp) ==
    AsSeq([j \in 1..Len(w) |-> IF imp[j] = "+" THEN ColMax(wm, j) ELSE ColMin(wm, j)])

nis(wm, w, imp) ==
    AsSeq([j \in 1..Len(w) |-> IF imp[j] = "+" THEN ColMin(wm, j) ELSE ColMax(wm, j)])

\* (a - b) ** 2 for two entries of one column: (a.n - b.n)^2 / r, and 0/0 when
\* the column's norm is zero
SqDiff(a, b) == Frac((a.n - b.n) * (a.n - b.n), a.r)

FracAdd(a, b) ==
    IF a.den = 0 \/ b.den = 0 THEN Frac(0, 0)
    ELSE Frac(a.num * b.den + b.num * a.den, a.den * b.den)

RECURSIVE FracSum(_, _)
FracSum(f, n) == IF n = 0 THEN Frac(0, 1) ELSE FracAdd(f[n], FracSum(f, n - 1))

\* ((weighted_matrix - ideal) ** 2).sum(axis=1) : the radicand of the
\* separation of every row from the ideal solution
Separation(wm, ideal) ==
    AsSeq([i \in 1..Len(wm) |->
        FracSum([j \in 1..Len(wm[i]) |-> SqDiff(wm[i][j], ideal[j])], Len(wm[i]))])

\* sip, sin = np.sqrt(...) : kept as their squares
sip(wm, w, imp) == Separation(wm, pis(wm, w, imp))
sin(wm, w, imp) == Separation(wm, nis(wm, w, imp))

NaN == [sn |-> 0, sp |-> 0]
IsNaN(s) == s.sn = 0 /\ s.sp = 0

\* a variant that guards the division and scores 0 when sip + sin = 0
Quotient_GuardedDivision(n2, p2) ==
    IF n2.den = 0 \/ p2.den = 0 THEN NaN
    ELSE LET a == n2.num * p2.den
             b == p2.num * n2.den
             g == Gcd(a, b)
         IN  IF g = 0 THEN [sn |-> 0, sp |-> 1] ELSE [sn |-> a \div g, sp |-> b \div g]

\* sin / (sip + sin) for one row, from the squares of sin and sip
Quotient(n2, p2) ==
    IF n2.den = 0 \/ p2.den = 0 THEN NaN
    ELSE LET a == n2.num * p2.den
             b == p2.num * n2.den
             g == Gcd(a, b)
         IN  IF g = 0 THEN NaN ELSE [sn |-> a \div g, sp |-> b \div g]

scores(crit, w, imp) ==
    LET wm == weighted_matrix(crit, w)
        p2 == sip(wm, w, imp)
        n2 == sin(wm, w, imp)
    IN  AsSeq([i \in 1..Len(crit) |-> Quotient(n2[i], p2[i])])

\* a < b on scores; a not-a-number sorts after every number
ScoreLess(a, b) ==
    IF IsNaN(a) THEN FALSE
    ELSE IF IsNaN(b) THEN TRUE
    ELSE a.sn * b.sp < b.sn * a.sp

\* scores.argsort() : the 0-based row indices in ascending order of score; equal
\* scores may come in any order
argsort(sc) ==
    LET s == AsSeq(sc)
    IN  {p \in [1..Len(s) -> 0..(Len(s) - 1)] :
            /\ \A k, l \in 1..Len(s) : k # l => p[k] # p[l]
            /\ \A k, l \in 1..Len(s) : k < l => ~ScoreLess(s[p[l] + 1], s[p[k] + 1])}

\* a variant that forgets the + 1 and reports 0-based ranks
ranks_ZeroBased(order) == AsSeq([k \in 1..Len(order) |-> order[Len(order) + 1 - k]])

\* order[::-1] + 1
ranks(order) == AsSeq([k \in 1..Len(order) |-> order[Len(order) + 1 - k] + 1])

\* topsis up to the frame it hands to to_csv, for the order argsort returned
topsis(df, w, imp, order) ==
    LET sc == scores(criteria(df), w, imp)
        withScore == SetColumn(df, "TOPSIS Score", "float64", sc)
    IN  SetColumn(withScore, "Rank", "int64", ranks(order))

(***************************************************************************)
(* The inputs of a run: the number of entries of sys.argv, the input file, *)
(* the comma-separated tokens of the Weights and Impacts arguments, and    *)
(* what stands at the result path.  A Weights token is a float literal     *)
(* with its value, or text float() rejects.                                *)
(***************************************************************************)
\* the result path: a file that can be written, an existing directory, a
\* path the user may not write, or a path in a directory that does not exist
Writable == "writable"
IsDirectory == "is a directory"
NoPermission == "permission denied"
NoDirectory == "no such directory"
ResultPaths == {Writable, IsDirectory, NoPermission, NoDirectory}

RowIds == <<"M1", "M2", "M3", "M4", "M5", "M6">>
ColNames == <<"Name", "P1", "P2", "P3", "P4", "P5">>

Values == 0..MaxVal

Literal(v) == [num |-> TRUE, val |-> v]
NotALiteral == [num |-> FALSE, val |-> 0]

Frame(hdr, dts, columns) ==
    [exists |-> TRUE, names |-> hdr, dtypes |-> dts, cols |-> columns]

\* every table of 1..MaxRows rows and two integer criteria over Values
NumericFrames ==
    UNION {
        {Frame(<<"Name", "P1", "P2">>, <<"object", "int64", "int64">>,
               <<[i \in 1..n |-> RowIds[i]], c1, c2>>) :
            c1 \in [1..n -> Values], c2 \in [1..n -> Values]} :
        n \in 1..MaxRows}

NumericInputs ==
    {[argc |-> ArgCount, file |-> f, W |-> <<Literal(w1), Literal(w2)>>,
      I |-> <<i1, i2>>, resultPath |-> Writable] :
        f \in NumericFrames, w1 \in 0..MaxWeight, w2 \in 0..MaxWeight,
        i1 \in {"+", "-"}, i2 \in {"+", "-"}}

\* headers in which at most one criterion column is called Rank
Headers(nc) ==
    {[c \in 1..nc |-> IF c = r THEN "Rank" ELSE ColNames[c]] : r \in {0} \cup 2..nc}

\* two-row tables of 1 to 3 criteria, every mix of numeric and text columns
ShapeFrames ==
    UNION {
        {Frame(h, [c \in 1..nc |-> IF c = 1 THEN "object" ELSE dts[c]],
               [c \in 1..nc |-> IF c = 1 THEN <<RowIds[1], RowIds[2]>>
                                ELSE IF c % 2 = 0 THEN <<1, 2>> ELSE <<2, 1>>]) :
            h \in Headers(nc), dts \in [2..nc -> {"int64", "object"}]} :
        nc \in (MinColumns - 1)..(MinColumns + 1)}

TokenSeqs(S) == UNION {[1..n -> S] : n \in 1..MinColumns}

ShapeInputs ==
    {[argc |-> ArgCount, file |-> f, W |-> w, I |-> i, resultPath |-> rp] :
        f \in ShapeFrames \cup {NoFile},
        w \in TokenSeqs({Literal(1), NotALiteral}),
        i \in TokenSeqs({"+", "-", "x"}),
        rp \in ResultPaths}

\* runs started with too few or too many arguments
UsageInputs ==
    {[argc |-> n, file |-> f, W |-> <<Literal(1), Literal(1)>>, I |-> <<"+", "-">>,
      resultPath |-> Writable] :
        n \in {ArgCount - 1, ArgCount + 1}, f \in {NoFile}}

Inputs == NumericInputs \cup ShapeInputs \cup UsageInputs

(***************************************************************************)
(* The run of __main__.                                                    *)
(***************************************************************************)
Line(prefix, text) == [prefix |-> prefix, text |-> text]
UsageLine ==
    Line("", "Usage: python 102217164.py <InputDataFile> <Weights> <Impacts> <ResultFileName>")
ErrorLine(msg) == Line("Error: ", msg)
SavedLine == Line("Results saved to ", "<ResultFileName>")

\* the message of the exception data.to_csv(output_file) raises, which depends on
\* what stands at the result path; for a missing directory it also depends on
\* the pandas at hand, which either checks the directory itself or lets
\* open() fail
WriteErrors(rp) ==
    CASE rp = IsDirectory -> {"[Errno 21] Is a directory: '<ResultFileName>'"}
      [] rp = NoPermission -> {"[Errno 13] Permission denied: '<ResultFileName>'"}
      [] rp = NoDirectory ->
            {"[Errno 2] No such file or directory: '<ResultFileName>'",
             "Cannot save file into a non-existent directory: '<ResultDirectory>'"}
      [] OTHER -> {}

Init ==
    \E in \in Inputs :
        /\ argv = [argc |-> in.argc, W |-> in.W, I |-> in.I]
        /\ file = in.file
        /\ resultPath = in.resultPath
        /\ pc = "start"
        /\ weights = <<>>
        /\ impacts = <<>>
        /\ outfile = NoFile
        /\ stdout = <<>>
        /\ exit = 0
        /\ uncaught = FALSE
        /\ reads = 0
        /\ writes = 0
        /\ calls = <<>>

\* if len(sys.argv) != 5: print usage; sys.exit(1)
CheckArgs ==
    /\ pc = "start"
    /\ IF argv.argc # ArgCount
       THEN /\ stdout' = Append(stdout, UsageLine)
            /\ exit' = UsageExit
            /\ pc' = "exit"
       ELSE /\ pc' = "parse"
            /\ UNCHANGED <<stdout, exit>>
    /\ UNCHANGED <<argv, file, weights, impacts, outfile, uncaught, reads, writes,
                   calls, resultPath>>

\* float(token): the value of a literal; raises ValueError otherwise
CanFloat(tok) == tok.num
float(tok) == tok.val

\* weights = list(map(float, sys.argv[2].split(','))); impacts = sys.argv[3].split(',')
\* These lines stand before the try: a ValueError of float() ends the run
\* with a traceback and exit status 1.
ParseArgs ==
    /\ pc = "parse"
    /\ IF \A k \in 1..Len(argv.W) : CanFloat(argv.W[k])
       THEN /\ weights' = [k \in 1..Len(argv.W) |-> float(argv.W[k])]
            /\ impacts' = argv.I
            /\ pc' = "validate"
            /\ UNCHANGED <<uncaught, exit>>
       ELSE /\ uncaught' = TRUE
            /\ exit' = 1
            /\ pc' = "exit"
            /\ UNCHANGED <<weights, impacts>>
    /\ UNCHANGED <<argv, file, outfile, stdout, reads, writes, calls, resultPath>>

\* a variant that runs the engine although the impacts were rejected
AfterValidation_IgnoringImpacts(result) ==
    IF result \in {OK, InvalidImpact} THEN "topsis" ELSE "exit"

\* where __main__ goes after validate_input
AfterValidation(result) == IF result = OK THEN "topsis" ELSE "exit"

\* try: validate_input(...) ... except Exception as e: print(f"Error: {e}")
Validate ==
    /\ pc = "validate"
    /\ LET result == validate_input(file, weights, impacts)
       IN  /\ calls' = Append(calls, "validate_input")
           /\ reads' = IF file.exists THEN reads + 1 ELSE reads
           /\ pc' = AfterValidation(result)
           /\ stdout' = IF result = OK THEN stdout ELSE Append(stdout, ErrorLine(result))
    /\ UNCHANGED <<argv, file, weights, impacts, outfile, exit, uncaught, writes,
                   resultPath>>

\* a variant in which topsis works on the frame validate_input loaded
TopsisReads_Reusing(n) == n

\* the count of reads of the input file after topsis's pd.read_csv(input_file)
TopsisReads(n) == n + 1

\* topsis(...) inside the try: reads the file again, computes, writes the
\* result file and prints the notice; an exception of to_csv is caught and its
\* message printed
Topsis ==
    /\ pc = "topsis"
    /\ calls' = Append(calls, "topsis")
    /\ reads' = TopsisReads(reads)
    /\ \E order \in argsort(scores(criteria(file), weights, impacts)) :
         IF resultPath = Writable
         THEN /\ outfile' = topsis(file, weights, impacts, order)
              /\ writes' = writes + 1
              /\ stdout' = Append(stdout, SavedLine)
         ELSE /\ \E msg \in WriteErrors(resultPath) :
                    stdout' = Append(stdout, ErrorLine(msg))
              /\ UNCHANGED <<outfile, writes>>
    /\ pc' = "exit"
    /\ UNCHANGED <<argv, file, weights, impacts, exit, uncaught, resultPath>>

Next == CheckArgs \/ ParseArgs \/ Validate \/ Topsis

Spec == Init /\ [][Next]_vars

(***************************************************************************)
(* What a run reports: the columns of the result file.                     *)
(***************************************************************************)
Column(df, name) == df.cols[CHOOSE k \in 1..NumCols(df) : df.names[k] = name]

Written == outfile.exists
ReportedScore == Column(outfile, "TOPSIS Score")
ReportedRank == Column(outfile, "Rank")
Rows == 1..NumRows(file)

\* no two rows have the same score (a not-a-number is distinct from nothing)
DistinctScores(sc) ==
    \A i, k \in 1..Len(sc) : i # k => ScoreLess(sc[i], sc[k]) \/ ScoreLess(sc[k], sc[i])

\* the rows whose score is strictly greater than the score of row i
Better(sc, i) == {k \in 1..Len(sc) : ScoreLess(sc[i], sc[k])}

(***************************************************************************)
(* C1.  For a table of at least two rows with pairwise distinct scores,    *)
(* the Rank reported next to row i is the position of row i in the         *)
(* descending order of the scores:                                         *)
(*     Rank[i] = 1 + (number of rows with a strictly greater score).       *)
(* The code reports ranks[i] = 1 + (index of the row with the i-th highest *)
(* score), the inverse of that permutation, so the statement fails as soon *)
(* as three rows are ordered in a cycle.                                   *)
(***************************************************************************)
C1_RankIsDescendingPosition ==
    (Written /\ NumRows(file) >= 2 /\ DistinctScores(ReportedScore))
        => \A i \in Rows : ReportedRank[i] = 1 + Cardinality(Better(ReportedScore, i))

(***************************************************************************)
(* C2.  With positive weights and all impacts '+', a row that attains the  *)
(* maximum weighted value in every criterion column, and is strictly       *)
(* higher than every other row in at least one column, has the strictly    *)
(* highest score and is reported with Rank = 1.                            *)
(***************************************************************************)
\* row b has the maximum of every weighted column, every column having a
\* norm, and exceeds each other row somewhere
Dominates(wm, b) ==
    /\ \A j \in 1..Len(wm[b]) : wm[b][j].r > 0 /\ wm[b][j] = ColMax(wm, j)
    /\ \A k \in 1..Len(wm) : k # b => \E j \in 1..Len(wm[b]) : wm[b][j].n > wm[k][j].n

AllBenefit ==
    /\ \A j \in 1..Len(weights) : weights[j] > 0
    /\ \A j \in 1..Len(impacts) : impacts[j] = "+"

C2_DominantRowScoresHighest ==
    (Written /\ AllBenefit)
        => \A b \in Rows :
              Dominates(weighted_matrix(criteria(file), weights), b)
                  => \A k \in Rows : k # b => ScoreLess(ReportedScore[k], ReportedScore[b])

\* stated for tables without score ties, where the order argsort returns is
\* the only one possible
C2_DominantRowRankedFirst ==
    (Written /\ AllBenefit /\ DistinctScores(ReportedScore))
        => \A b \in Rows :
              Dominates(weighted_matrix(criteria(file), weights), b)
                  => /\ \A k \in Rows : k # b => ScoreLess(ReportedScore[k], ReportedScore[b])
                     /\ ReportedRank[b] = 1

(***************************************************************************)
(* C3.  For an input that passes validate_input and has no score ties, the *)
(* result has one score and one rank per input row and the reported ranks  *)
(* are exactly 1..n.                                                       *)
(***************************************************************************)
C3_RanksArePermutation ==
    (Written /\ DistinctScores(ReportedScore))
        => /\ Len(ReportedScore) = NumRows(file)
           /\ Len(ReportedRank) = NumRows(file)
           /\ Range(ReportedRank) = 1..NumRows(file)

C3_Witness ==
    /\ Written
    /\ NumRows(file) = 3
    /\ DistinctScores(ReportedScore)
    /\ Range(ReportedRank) = 1..3

(***************************************************************************)
(* C4.  topsis is invoked only after validate_input has returned without   *)
(* raising; when validate_input fails the result file is never written and *)
(* no 'Results saved' notice is printed.                                   *)
(***************************************************************************)
Called(f) == \E k \in 1..Len(calls) : calls[k] = f
ValidationRan == Called("validate_input")
ValidationFailed == ValidationRan /\ validate_input(file, weights, impacts) # OK

C4_ValidateBeforeEngine ==
    /\ Called("topsis")
          => /\ calls = <<"validate_input", "topsis">>
             /\ validate_input(file, weights, impacts) = OK
    /\ (Written \/ writes > 0 \/ SavedLine \in Range(stdout)) => Called("topsis")
    /\ ValidationFailed
          => /\ ~Called("topsis")
             /\ outfile = NoFile
             /\ writes = 0
             /\ SavedLine \notin Range(stdout)

C4_Witness ==
    /\ pc = "exit"
    /\ ValidationFailed
    /\ validate_input(file, weights, impacts) = InvalidImpact
    /\ outfile = NoFile

(***************************************************************************)
(* C5.  In a run with exactly 4 positional arguments every failure is      *)
(* caught at the top level and printed as 'Error: <message>', and the      *)
(* process ends with exit status 0; no exception escapes.                  *)
(* The Weights argument is parsed before the try statement, so a token     *)
(* float() rejects ends the run with a traceback and exit status 1.        *)
(***************************************************************************)
Failed == pc = "exit" /\ argv.argc = ArgCount /\ ~Written

C5_EveryFailureCaught ==
    Failed => /\ ~uncaught
              /\ exit = 0
              /\ Len(stdout) = 1
              /\ stdout[1].prefix = "Error: "

\* what does hold: the failures raised inside the try statement are caught
C5_FailuresInsideTryCaught ==
    (Failed /\ ValidationRan)
        => /\ ~uncaught
           /\ exit = 0
           /\ Len(stdout) = 1
           /\ stdout[1].prefix = "Error: "

(***************************************************************************)
(* C6.  validate_input returns exactly when the file exists, the table has *)
(* at least 3 columns, every column after the first is numeric,            *)
(* len(weights) = len(impacts) = columns - 1 and every impact is '+' or    *)
(* '-'; otherwise it raises the condition of the first check violated, in  *)
(* the order MissingFile, InsufficientColumns, NonNumericCriterion,        *)
(* DimensionMismatch, InvalidImpact.  In particular 2 weights with 3       *)
(* impacts on a table passing the first three checks give                  *)
(* DimensionMismatch, whatever the impact symbols.                         *)
(***************************************************************************)
FileExists == file.exists
EnoughColumns == Len(file.names) >= 3
AllNumeric == \A c \in 2..Len(file.names) : file.dtypes[c] # "object"
CountsAgree == Len(weights) = Len(impacts) /\ Len(impacts) = Len(file.names) - 1
ImpactsValid == \A k \in 1..Len(impacts) : impacts[k] = "+" \/ impacts[k] = "-"

FirstViolated ==
    CASE ~FileExists -> MissingFile
      [] FileExists /\ ~EnoughColumns -> InsufficientColumns
      [] FileExists /\ EnoughColumns /\ ~AllNumeric -> NonNumericCriterion
      [] FileExists /\ EnoughColumns /\ AllNumeric /\ ~CountsAgree -> DimensionMismatch
      [] OTHER -> InvalidImpact

JustValidated == calls = <<"validate_input">>

C6_ValidationOutcome ==
    JustValidated =>
        /\ IF FileExists /\ EnoughColumns /\ AllNumeric /\ CountsAgree /\ ImpactsValid
           THEN pc = "topsis" /\ stdout = <<>>
           ELSE pc = "exit" /\ stdout = <<ErrorLine(FirstViolated)>>
        /\ (FileExists /\ EnoughColumns /\ AllNumeric
                /\ Len(weights) = 2 /\ Len(impacts) = 3)
              => stdout = <<ErrorLine(DimensionMismatch)>>

C6_Witness ==
    /\ JustValidated
    /\ FileExists /\ EnoughColumns /\ AllNumeric
    /\ Len(weights) = 2 /\ Len(impacts) = 3
    /\ \E k \in 1..3 : impacts[k] = "x"
    /\ stdout = <<ErrorLine(DimensionMismatch)>>

(***************************************************************************)
(* C7.  Every score written is a defined number in [0,1], equal to         *)
(* distN / (distP + distN), also when all rows are identical and when a    *)
(* weight is zero.                                                         *)
(* As stated this fails: the division is 0/0 when distP = distN = 0, and   *)
(* the normalisation is 0/0 for a column of zeros.  Amended: a score is a  *)
(* number in [0,1] equal to distN / (distP + distN) unless some criterion  *)
(* column is all zeros or every column is constant over the rows or has    *)
(* weight zero, and in those cases every score is not-a-number.            *)
(***************************************************************************)
Crit == criteria(file)
Criteria == 1..(NumCols(file) - 1)

ZeroNormColumn == \E j \in Criteria : \A i \in Rows : Crit[i][j] = 0
NoSpread ==
    \A j \in Criteria : weights[j] = 0 \/ \A i, k \in Rows : Crit[i][j] = Crit[k][j]

\* 0 <= sqrt(sn) / (sqrt(sn) + sqrt(sp)) <= 1 with a denominator that is not 0
InUnitInterval(s) == s.sn >= 0 /\ s.sp >= 0 /\ s.sn + s.sp > 0

\* s = sqrt(n2) / (sqrt(n2) + sqrt(p2)) : s.sn : s.sp = n2 : p2
IsQuotientOf(s, n2, p2) ==
    /\ n2.den > 0 /\ p2.den > 0
    /\ s.sn * p2.num * n2.den = s.sp * n2.num * p2.den

SepP == sip(weighted_matrix(Crit, weights), weights, impacts)
SepN == sin(weighted_matrix(Crit, weights), weights, impacts)

C7_ScoreAlwaysInUnitInterval ==
    Written => \A i \in Rows :
                  /\ ~IsNaN(ReportedScore[i])
                  /\ InUnitInterval(ReportedScore[i])
                  /\ IsQuotientOf(ReportedScore[i], SepN[i], SepP[i])

C7_ScoreInUnitIntervalOrNaN ==
    Written => \A i \in Rows :
                  IF ZeroNormColumn \/ NoSpread
                  THEN IsNaN(ReportedScore[i])
                  ELSE /\ ~IsNaN(ReportedScore[i])
                       /\ InUnitInterval(ReportedScore[i])
                       /\ IsQuotientOf(ReportedScore[i], SepN[i], SepP[i])

\* a zero weight, and scores that are numbers strictly between 0 and 1
C7_Witness ==
    /\ Written
    /\ \E j \in Criteria : weights[j] = 0
    /\ \E i \in Rows : ReportedScore[i].sn > 0 /\ ReportedScore[i].sp > 0

(***************************************************************************)
(* C8.  Scale invariance: multiplying all values of a criterion column by  *)
(* a positive constant leaves every row's squared separations from PIS and *)
(* NIS, and hence every row's score and rank, unchanged.                   *)
(* The separations and the scores are unchanged.  The ranks are unchanged  *)
(* when the scores are pairwise distinct; rows with equal scores get their *)
(* ranks in the order argsort happens to give them, which a rescaled       *)
(* column can change.                                                      *)
(***************************************************************************)
ScaleColumn(df, j, c) ==
    [df EXCEPT !.cols[j + 1] = [i \in 1..Len(@) |-> c * @[i]]]

ScaledScores(j, c) == scores(criteria(ScaleColumn(file, j, c)), weights, impacts)
ScaledSepP(j, c) ==
    sip(weighted_matrix(criteria(ScaleColumn(file, j, c)), weights), weights, impacts)
ScaledSepN(j, c) ==
    sin(weighted_matrix(criteria(ScaleColumn(file, j, c)), weights), weights, impacts)

SeparationsAndScoresUnchanged(j, c) ==
    /\ ScaledSepP(j, c) = SepP
    /\ ScaledSepN(j, c) = SepN
    /\ ScaledScores(j, c) = ReportedScore

RanksUnchanged(j, c) ==
    \A order \in argsort(ScaledScores(j, c)) : ranks(order) = ReportedRank

C8_ScaleInvariantWithRanks ==
    Written => \A j \in Criteria, c \in 2..MaxScale :
                  SeparationsAndScoresUnchanged(j, c) /\ RanksUnchanged(j, c)

C8_ScaleInvariant ==
    Written => \A j \in Criteria, c \in 2..MaxScale :
                  /\ SeparationsAndScoresUnchanged(j, c)
                  /\ DistinctScores(ReportedScore) => RanksUnchanged(j, c)

C8_Witness ==
    /\ Written
    /\ NumRows(file) = 3
    /\ DistinctScores(ReportedScore)
    /\ \A i \in Rows : Crit[i][1] > 0
    /\ ScaledScores(1, MaxScale) = ReportedScore
    /\ RanksUnchanged(1, MaxScale)

(***************************************************************************)
(* C9.  The table written has the rows of the input table in the same      *)
(* order, with the identifier column and every criterion column unchanged; *)
(* the only difference is two new trailing columns, 'TOPSIS Score' then    *)
(* 'Rank'.                                                                 *)
(* data['Rank'] = ranks overwrites an input column that is already called  *)
(* Rank instead of appending one.                                          *)
(***************************************************************************)
C9_OutputExtendsInput ==
    Written =>
        /\ outfile.names = file.names \o <<"TOPSIS Score", "Rank">>
        /\ NumRows(outfile) = NumRows(file)
        /\ \A c \in 1..NumCols(file) : outfile.cols[c] = file.cols[c]

\* what does hold: the statement for inputs that have no column called Rank
C9_OutputExtendsInputUnlessNamed ==
    (Written /\ "Rank" \notin Range(file.names)) =>
        /\ outfile.names = file.names \o <<"TOPSIS Score", "Rank">>
        /\ NumRows(outfile) = NumRows(file)
        /\ \A c \in 1..NumCols(file) : outfile.cols[c] = file.cols[c]

(***************************************************************************)
(* C10.  In every successful run the input file is read exactly once and   *)
(* the output file is written exactly once.                                *)
(* validate_input and topsis each call pd.read_csv: the file is read       *)
(* twice, once by each, and the result file is written once.               *)
(***************************************************************************)
Succeeded == pc = "exit" /\ Written

C10_ReadOnceWriteOnce == Succeeded => reads = 1 /\ writes = 1

C10_ReadTwiceWriteOnce ==
    Succeeded => /\ reads = 2
                 /\ writes = 1
                 /\ calls = <<"validate_input", "topsis">>

C10_Witness == Succeeded /\ reads = 2 /\ writes = 1

====
